---- MODULE Spec2Model ----
(***************************************************************************)
(* The client-side learning state machine of vamos: the router, the        *)
(* favorites registry, the stage index view (Vocabulary), the stage cards  *)
(* view (VocabularyCards) and the favorites view (Favorites).              *)
(*                                                                         *)
(* A URL is a path (a sequence of segments, each a sequence of one         *)
(* character strings) and the value of its dir query parameter (<<>> when  *)
(* absent, <<d>> when present).                                            *)
(***************************************************************************)
EXTENDS Integers, Sequences, FiniteSets, TLC

(* ---------------------------------------------------------------------- *)
(* Bounds of the model                                                     *)
(* ---------------------------------------------------------------------- *)

\* cards in the longest stage of the modelled corpus (the real stages hold
\* about 20; the id blocks of 20 are kept whatever this is)
CardsPerStage == 2

\* the registry is explored up to this many entries
MaxFavorites == 2

(* ---------------------------------------------------------------------- *)
(* Result<T, String> and Option<T>                                         *)
(* ---------------------------------------------------------------------- *)

Ok(v) == [ok |-> TRUE, val |-> v]

Err(e) == [ok |-> FALSE, err |-> e]

None == <<>>

Some(v) == <<v>>

(* ---------------------------------------------------------------------- *)
(* src/data/mod.rs                                                         *)
(* ---------------------------------------------------------------------- *)

SpanishToEnglish == "SpanishToEnglish"

EnglishToSpanish == "EnglishToSpanish"

LearningDirection == {SpanishToEnglish, EnglishToSpanish}

\* the last stage load_vocabulary_stage embeds
LastStage == 21

\* the ids of a stage form a block of this size
BlockSize == 20

\* number of cards in the JSON documents of a stage (both languages): the
\* stages differ in length
StageLen(stage) == IF stage % 2 = 0 THEN CardsPerStage - 1 ELSE CardsPerStage

\* translations/vocabulary/<stage>/<language>.json: position i of both
\* languages carries the same id, ids run in blocks of 20
StageJson(stage, language) ==
    [i \in 1..StageLen(stage) |->
        [id |-> (stage - 1) * BlockSize + i,
         word |-> <<language, (stage - 1) * BlockSize + i>>]]

\* load_vocabulary_stage without the lower end of the stage range
load_vocabulary_stage_no_lower_bound(stage, language) ==
    IF stage <= LastStage /\ language \in {"es", "en"}
    THEN Ok(StageJson(stage, language))
    ELSE Err(<<"Stage", stage, "for language", language, "not found">>)

load_vocabulary_stage(stage, language) ==
    IF stage \in 1..LastStage /\ language \in {"es", "en"}
    THEN Ok(StageJson(stage, language))
    ELSE Err(<<"Stage", stage, "for language", language, "not found">>)

\* get_card_pair returning the Spanish card first in both directions
get_card_pair_no_swap(stage, card_index, direction) ==
    LET spanish_cards == load_vocabulary_stage(stage, "es")
        english_cards == load_vocabulary_stage(stage, "en")
    IN  IF ~spanish_cards.ok THEN spanish_cards
        ELSE IF ~english_cards.ok THEN english_cards
        ELSE IF card_index >= Len(spanish_cards.val)
                \/ card_index >= Len(english_cards.val)
        THEN Err(<<"Card index out of bounds">>)
        ELSE Ok(<<spanish_cards.val[card_index + 1], english_cards.val[card_index + 1]>>)

\* card_index is zero-based
get_card_pair(stage, card_index, direction) ==
    LET spanish_cards == load_vocabulary_stage(stage, "es")
        english_cards == load_vocabulary_stage(stage, "en")
    IN  IF ~spanish_cards.ok THEN spanish_cards
        ELSE IF ~english_cards.ok THEN english_cards
        ELSE IF card_index >= Len(spanish_cards.val)
                \/ card_index >= Len(english_cards.val)
        THEN Err(<<"Card index out of bounds">>)
        ELSE IF direction = SpanishToEnglish
        THEN Ok(<<spanish_cards.val[card_index + 1], english_cards.val[card_index + 1]>>)
        ELSE Ok(<<english_cards.val[card_index + 1], spanish_cards.val[card_index + 1]>>)

get_stage_card_count(stage) ==
    LET cards == load_vocabulary_stage(stage, "es")
    IN  IF cards.ok THEN Ok(Len(cards.val)) ELSE cards

\* longest document of the data layer's own specification
MaxDocLen == 3

\* a document of n cards in one language
Document(language, n) ==
    [i \in 1..n |-> [id |-> i, word |-> <<language, i>>]]

\* get_card_pair refusing the last index of the shorter list too
get_card_pair_of_off_by_one(spanish_cards, english_cards, card_index, direction) ==
    IF card_index + 1 >= Len(spanish_cards) \/ card_index + 1 >= Len(english_cards)
    THEN Err(<<"Card index out of bounds">>)
    ELSE IF direction = SpanishToEnglish
    THEN Ok(<<spanish_cards[card_index + 1], english_cards[card_index + 1]>>)
    ELSE Ok(<<english_cards[card_index + 1], spanish_cards[card_index + 1]>>)

\* get_card_pair once both documents of the stage are loaded
get_card_pair_of(spanish_cards, english_cards, card_index, direction) ==
    IF card_index >= Len(spanish_cards) \/ card_index >= Len(english_cards)
    THEN Err(<<"Card index out of bounds">>)
    ELSE IF direction = SpanishToEnglish
    THEN Ok(<<spanish_cards[card_index + 1], english_cards[card_index + 1]>>)
    ELSE Ok(<<english_cards[card_index + 1], spanish_cards[card_index + 1]>>)

\* get_stage_card_count once the Spanish document of the stage is loaded
get_stage_card_count_of(cards) == Ok(Len(cards))

(* ---------------------------------------------------------------------- *)
(* Strings of the URL                                                      *)
(* ---------------------------------------------------------------------- *)

SegVocabulary == <<"v", "o", "c", "a", "b", "u", "l", "a", "r", "y">>

SegFavorites == <<"f", "a", "v", "o", "r", "i", "t", "e", "s">>

SegGrammar == <<"g", "r", "a", "m", "m", "a", "r">>

Digits == <<"0", "1", "2", "3", "4", "5", "6", "7", "8", "9">>

IsDigit(c) == \E d \in 1..Len(Digits) : Digits[d] = c

DigitValue(c) == (CHOOSE d \in 1..Len(Digits) : Digits[d] = c) - 1

\* longest digit string the model parses: every such number is below 2^32
MaxDigits == 9

RECURSIVE ParseDigits(_, _)
ParseDigits(s, acc) ==
    IF s = <<>> THEN Ok(acc)
    ELSE IF ~IsDigit(Head(s)) THEN Err("InvalidDigit")
    ELSE ParseDigits(Tail(s), acc * 10 + DigitValue(Head(s)))

\* str::parse::<u32>: an optional leading "+", then one or more decimal
\* digits; anything else (empty, a sign alone, "-", a letter) is an error
parse_u32(s) ==
    LET digits == IF s # <<>> /\ Head(s) = "+" THEN Tail(s) ELSE s
    IN  IF digits = <<>> THEN Err("Empty")
        ELSE IF Len(digits) > MaxDigits THEN Err("PosOverflow")
        ELSE ParseDigits(digits, 0)

(* ---------------------------------------------------------------------- *)
(* src/main.rs: the route table of App                                     *)
(* ---------------------------------------------------------------------- *)

StaticSegment(name) == [kind |-> "static", name |-> name]

ParamSegment(name) == [kind |-> "param", name |-> name]

\* Routes with /vocabulary/:stage listed before /vocabulary/favorites
Routes_stage_first ==
    << [path |-> <<>>, view |-> "Home"],
       [path |-> <<StaticSegment(SegVocabulary)>>, view |-> "Vocabulary"],
       [path |-> <<StaticSegment(SegVocabulary), ParamSegment("stage")>>,
        view |-> "VocabularyCards"],
       [path |-> <<StaticSegment(SegVocabulary), StaticSegment(SegFavorites)>>,
        view |-> "Favorites"],
       [path |-> <<StaticSegment(SegGrammar)>>, view |-> "Grammar"] >>

\* <Route path=... view=.../> in the order App lists them
Routes ==
    << [path |-> <<>>, view |-> "Home"],
       [path |-> <<StaticSegment(SegVocabulary)>>, view |-> "Vocabulary"],
       [path |-> <<StaticSegment(SegVocabulary), StaticSegment(SegFavorites)>>,
        view |-> "Favorites"],
       [path |-> <<StaticSegment(SegVocabulary), ParamSegment("stage")>>,
        view |-> "VocabularyCards"],
       [path |-> <<StaticSegment(SegGrammar)>>, view |-> "Grammar"] >>

\* <Routes fallback=|| "Page not found">
Fallback == "Page not found"

\* a route matches a path when it matches it whole, segment by segment: a
\* static segment matches itself, a :param segment any non-empty segment
RouteMatches(route, p) ==
    /\ Len(route.path) = Len(p)
    /\ \A i \in 1..Len(p) :
          IF route.path[i].kind = "static"
          THEN p[i] = route.path[i].name
          ELSE p[i] # <<>>

\* the routes are tried in the order of the table; the first match is taken
RECURSIVE FirstMatch(_, _, _)
FirstMatch(routes, i, p) ==
    IF i > Len(routes) THEN 0
    ELSE IF RouteMatches(routes[i], p) THEN i
    ELSE FirstMatch(routes, i + 1, p)

MatchedRoute(p) == FirstMatch(Routes, 1, p)

App(p) == IF MatchedRoute(p) = 0 THEN Fallback ELSE Routes[MatchedRoute(p)].view

\* use_params_map().get("stage") for the path p
ParamStage(p) ==
    LET r == MatchedRoute(p)
    IN  IF r # 0 /\ \E i \in 1..Len(p) : Routes[r].path[i].kind = "param"
        THEN Some(p[CHOOSE i \in 1..Len(p) : Routes[r].path[i].kind = "param"])
        ELSE None

(* ---------------------------------------------------------------------- *)
(* src/core/favorites.rs: FavoritesContext over a HashSet<(u32, u32)>      *)
(* ---------------------------------------------------------------------- *)

FavoritesContext_new == {}

\* toggle without the removal of a present key
toggle_insert_only(favs, stage, card_id) == favs \cup {<<stage, card_id>>}

toggle(favs, stage, card_id) ==
    LET key == <<stage, card_id>>
    IN  IF key \in favs THEN favs \ {key} ELSE favs \cup {key}

is_favorite(favs, stage, card_id) == <<stage, card_id>> \in favs

\* the iteration order of a HashSet is unspecified: every enumeration of
\* the set, each member once, is a possible result
get_all(favs) ==
    {all \in [1..Cardinality(favs) -> favs] :
        \A i, j \in 1..Cardinality(favs) : all[i] = all[j] => i = j}

\* remove that inserts the key when it is absent, as toggle does
remove_as_toggle(favs, stage, card_id) ==
    LET key == <<stage, card_id>>
    IN  IF key \in favs THEN favs \ {key} ELSE favs \cup {key}

remove(favs, stage, card_id) == favs \ {<<stage, card_id>>}

count(favs) == Cardinality(favs)

(* ---------------------------------------------------------------------- *)
(* usize arithmetic                                                        *)
(* ---------------------------------------------------------------------- *)

\* usize::MAX; the model checker's integers end at 2^31 - 1, which stands
\* for it: every other number of the model is far below
UsizeMax == 2147483647

\* a - b on usize (and on u32, of the same width on wasm32), wrapping as
\* the release build does
wrapping_sub(a, b) == IF a >= b THEN a - b ELSE UsizeMax - (b - a) + 1

(* ---------------------------------------------------------------------- *)
(* src/pages/vocabulary.rs: the stage index view                           *)
(* ---------------------------------------------------------------------- *)

\* the direction Memo: q is the dir query value (None or Some(d))
Vocabulary_direction(q) ==
    IF q # None /\ (q[1] = "en-to-es" \/ q[1] = "es-to-en")
    THEN q[1]
    ELSE "es-to-en"

\* toggle_direction comparing the raw query value instead of the Memo
Vocabulary_toggle_direction_raw(q) ==
    LET new_dir == IF q = Some("es-to-en") THEN "en-to-es" ELSE "es-to-en"
    IN  [path |-> <<SegVocabulary>>, dir |-> Some(new_dir)]

\* the URL toggle_direction navigates to: [path, dir]
Vocabulary_toggle_direction(q) ==
    LET new_dir == IF Vocabulary_direction(q) = "es-to-en"
                   THEN "en-to-es"
                   ELSE "es-to-en"
    IN  [path |-> <<SegVocabulary>>, dir |-> Some(new_dir)]

\* u32 Display: the decimal digits, no sign, no leading zero
RECURSIVE u32_to_string(_)
u32_to_string(n) ==
    IF n < 10 THEN <<Digits[n + 1]>>
    ELSE u32_to_string(n \div 10) \o <<Digits[(n % 10) + 1]>>

\* a stage link without the dir query
Vocabulary_stage_link_no_dir(q, stage) ==
    [path |-> <<SegVocabulary, u32_to_string(stage)>>, dir |-> None]

\* the href of the link of a stage in the stage grid: [path, dir]
Vocabulary_stage_link(q, stage) ==
    [path |-> <<SegVocabulary, u32_to_string(stage)>>,
     dir |-> Some(Vocabulary_direction(q))]

\* the href of the favorites tile
Vocabulary_favorites_link(q) ==
    [path |-> <<SegVocabulary, SegFavorites>>,
     dir |-> Some(Vocabulary_direction(q))]

(* ---------------------------------------------------------------------- *)
(* src/pages/vocabulary_cards.rs: the stage cards view                     *)
(* ---------------------------------------------------------------------- *)

\* the stage closure with unwrap_or(0) instead of unwrap_or(1)
VocabularyCards_stage_default_zero(p) ==
    LET s == ParamStage(p)
    IN  IF s # None /\ parse_u32(s[1]).ok THEN parse_u32(s[1]).val ELSE 0

\* the stage closure, for the path p
VocabularyCards_stage(p) ==
    LET s == ParamStage(p)
    IN  IF s # None /\ parse_u32(s[1]).ok THEN parse_u32(s[1]).val ELSE 1

\* the direction closure with the two branches of the comparison swapped
VocabularyCards_direction_swapped(q) ==
    IF q # None
    THEN IF q[1] = "en-to-es" THEN SpanishToEnglish ELSE EnglishToSpanish
    ELSE SpanishToEnglish

\* the direction closure
VocabularyCards_direction(q) ==
    IF q # None
    THEN IF q[1] = "en-to-es" THEN EnglishToSpanish ELSE SpanishToEnglish
    ELSE SpanishToEnglish

\* the signals of a card view: signal(0usize), signal(false), signal(false),
\* signal(0usize)
NewSignals ==
    [card_index |-> 0, show_example |-> FALSE, show_translation |-> FALSE,
     card_count |-> 0]

\* the Effect that follows the stage: sig are the signals before it runs
\* the Effect without set_card_index.set(0)
VocabularyCards_Effect_keep_index(p, sig) ==
    LET current_stage == VocabularyCards_stage(p)
        n == get_stage_card_count(current_stage)
    IN  IF n.ok
        THEN [card_index |-> sig.card_index, show_example |-> FALSE,
              show_translation |-> FALSE, card_count |-> n.val]
        ELSE sig

VocabularyCards_Effect(p, sig) ==
    LET current_stage == VocabularyCards_stage(p)
        n == get_stage_card_count(current_stage)
    IN  IF n.ok
        THEN [card_index |-> 0, show_example |-> FALSE,
              show_translation |-> FALSE, card_count |-> n.val]
        ELSE sig

VocabularyCards_current_card(p, q, index) ==
    get_card_pair(VocabularyCards_stage(p), index, VocabularyCards_direction(q))

\* what the view renders: the card with its buttons, or the error pane
VocabularyCards_pane(p, q, index) ==
    IF VocabularyCards_current_card(p, q, index).ok THEN "card" ELSE "error"

\* the href of the header's back link
VocabularyCards_back_link(q) ==
    [path |-> <<SegVocabulary>>,
     dir |-> Some(IF VocabularyCards_direction(q) = EnglishToSpanish
                  THEN "en-to-es"
                  ELSE "es-to-en")]

\* the back link of the error pane: <A href="/vocabulary">
VocabularyCards_error_back_link == [path |-> <<SegVocabulary>>, dir |-> None]

\* the guard of go_next bounded by the count instead of count - 1
VocabularyCards_can_next_off_by_one(index, n) == index < n

\* the guard of go_next
VocabularyCards_can_next(index, n) == index < wrapping_sub(n, 1)

\* the guard of go_prev
VocabularyCards_can_prev(index) == index > 0

\* is_favorite looking the card up by its position in the stage instead of
\* its id
VocabularyCards_is_favorite_by_index(favs, p, q, index) ==
    LET card == VocabularyCards_current_card(p, q, index)
    IN  IF card.ok
        THEN is_favorite(favs, VocabularyCards_stage(p), index + 1)
        ELSE FALSE

VocabularyCards_is_favorite(favs, p, q, index) ==
    LET card == VocabularyCards_current_card(p, q, index)
    IN  IF card.ok
        THEN is_favorite(favs, VocabularyCards_stage(p), card.val[1].id)
        ELSE FALSE

(* ---------------------------------------------------------------------- *)
(* src/pages/favorites.rs: the favorites view                              *)
(* ---------------------------------------------------------------------- *)

\* the filter of favorite_cards: entry is (stage, card_id)
Favorites_filter(entry) ==
    LET stage == entry[1]
        card_id == entry[2]
    IN  CASE stage = 1 -> card_id >= 1 /\ card_id <= 20
          [] stage = 2 -> card_id >= 21 /\ card_id <= 40
          [] stage = 3 -> card_id >= 41 /\ card_id <= 60
          [] OTHER -> FALSE

\* insert e into the sorted sequence s after every entry whose key is not
\* greater (the sort is stable)
RECURSIVE InsertByKey(_, _)
InsertByKey(s, e) ==
    IF s = <<>> THEN <<e>>
    ELSE IF e[2] < Head(s)[2] THEN <<e>> \o s
    ELSE <<Head(s)>> \o InsertByKey(Tail(s), e)

RECURSIVE SortFrom(_, _, _)
SortFrom(s, i, acc) ==
    IF i > Len(s) THEN acc ELSE SortFrom(s, i + 1, InsertByKey(acc, s[i]))

\* favorite_cards without the sort
sort_by_key_omitted(s) == s

\* filtered.sort_by_key(|(_, card_id)| *card_id)
sort_by_key(s) == SortFrom(s, 1, <<>>)

\* favorite_cards, for the snapshot all that get_all returned
Favorites_favorite_cards(all) == sort_by_key(SelectSeq(all, Favorites_filter))

\* the direction current_card hands to get_card_pair, for the dir query q
Favorites_direction(q) == SpanishToEnglish

Favorites_current_card(cards, index, q) ==
    IF cards = <<>> \/ index >= Len(cards)
    THEN Err(<<"No favorites available">>)
    ELSE LET stage == cards[index + 1][1]
             card_id == cards[index + 1][2]
         IN  IF stage \notin {1, 2, 3} THEN Err(<<"Invalid stage">>)
             ELSE LET card_idx == CASE stage = 1 -> wrapping_sub(card_id, 1)
                                    [] stage = 2 -> wrapping_sub(card_id, 21)
                                    [] stage = 3 -> wrapping_sub(card_id, 41)
                      pair == get_card_pair(stage, card_idx, Favorites_direction(q))
                  IN  IF pair.ok
                      THEN Ok(<<stage, pair.val[1], pair.val[2]>>)
                      ELSE pair

\* the guard of go_next, over the working list
\* go_next bounded by the length instead of the last index
Favorites_can_next_off_by_one(index, cards) == index < Len(cards)

Favorites_can_next(index, cards) == index < wrapping_sub(Len(cards), 1)

\* toggle_favorite without the clamp of the index
Favorites_index_after_toggle_unclamped(index, new_count) ==
    IF new_count = 0 THEN 0 ELSE index

\* the index toggle_favorite leaves, new_count being the length of the
\* working list after the toggle
Favorites_index_after_toggle(index, new_count) ==
    IF new_count = 0 THEN 0
    ELSE IF index >= new_count THEN new_count - 1
    ELSE index

\* what the view renders: the empty-state pane, a card or the error pane
Favorites_pane(cards, index, q) ==
    IF cards = <<>> THEN "empty"
    ELSE IF Favorites_current_card(cards, index, q).ok THEN "card"
    ELSE "error"

\* the href of the header's back link
Favorites_back_link == [path |-> <<SegVocabulary>>, dir |-> None]

\* the href of the back link of the empty-state pane
Favorites_empty_back_link == [path |-> <<SegVocabulary>>, dir |-> None]

(* ---------------------------------------------------------------------- *)
(* The URLs of the model                                                   *)
(* ---------------------------------------------------------------------- *)

\* second segments of /vocabulary/<segment>: stages with cards in the
\* favorites view's blocks (1, 2) and outside them (4), a stage that does
\* not exist, and a segment that is no number
StageSegments == {<<"1">>, <<"2">>, <<"4">>, <<"9", "9", "9">>, <<"a", "b", "c">>}

Paths ==
    {<<>>, <<SegVocabulary>>, <<SegVocabulary, SegFavorites>>, <<SegGrammar>>,
     <<SegFavorites>>, <<SegVocabulary, <<"1">>, <<"2">>>>}
    \cup {<<SegVocabulary, s>> : s \in StageSegments}

\* values of the dir query parameter: absent, the two exact values, and a
\* value that is neither
DirQueries == {None, Some("es-to-en"), Some("en-to-es"), Some("EN-TO-ES")}

(* ---------------------------------------------------------------------- *)
(* State                                                                   *)
(* ---------------------------------------------------------------------- *)

VARIABLES
    path,              \* the path of the current URL
    dir,               \* the dir query value of the current URL
    view,              \* the view the router has mounted
    favorites,         \* FavoritesContext.favorites, provided by App
    card_index,        \* the signals of the mounted card view (the stage
    show_example,      \*   cards view or the favorites view; a view's
    show_translation,  \*   signals are created when it is mounted)
    card_count,        \* card_count of the stage cards view
    last,              \* the operation that led to this state
    toggled_from,      \* the dir query values the last (at most two)
                       \*   toggle_direction steps in a row started from
    documents,         \* the two JSON documents handed to the data layer
    result,            \*   when it is exercised on its own, and its answer
    props,             \* the props of the shared card component
    pending,           \* the Effect of a mounted view has yet to run
    panicked           \* an arithmetic overflow check has ended the program

vars ==
    <<path, dir, view, favorites, card_index, show_example, show_translation,
      card_count, last, toggled_from, documents, result, props, pending,
      panicked>>

\* the state that only the specifications of single parts and of the
\* single ticks use
apart == <<documents, result, props, pending, panicked>>

signals ==
    [card_index |-> card_index, show_example |-> show_example,
     show_translation |-> show_translation, card_count |-> card_count]

SetSignals(sig) ==
    /\ card_index' = sig.card_index
    /\ show_example' = sig.show_example
    /\ show_translation' = sig.show_translation
    /\ card_count' = sig.card_count

\* the signals of view v once it is mounted at path p: the component
\* creates them and, in the stage cards view, the Effect runs a first time
Mounted(v, p) ==
    IF v = "VocabularyCards" THEN VocabularyCards_Effect(p, NewSignals)
    ELSE NewSignals

\* the page is loaded at some URL: App provides an empty registry and the
\* router mounts the view of the path
Init ==
    /\ path \in Paths
    /\ dir \in DirQueries
    /\ view = App(path)
    /\ favorites = FavoritesContext_new
    /\ card_index = Mounted(App(path), path).card_index
    /\ show_example = Mounted(App(path), path).show_example
    /\ show_translation = Mounted(App(path), path).show_translation
    /\ card_count = Mounted(App(path), path).card_count
    /\ last = "load"
    /\ toggled_from = <<>>
    /\ documents = None
    /\ result = None
    /\ props = None
    /\ pending = FALSE
    /\ panicked = FALSE

\* a router that keeps the signals of the view it leaves for the view it
\* mounts
Goto_keep_signals(p, d) ==
    /\ path' = p
    /\ dir' = d
    /\ view' = App(p)
    /\ IF App(p) = "VocabularyCards" /\ ParamStage(p) # ParamStage(path)
       THEN SetSignals(VocabularyCards_Effect(p, signals))
       ELSE SetSignals(signals)
    /\ UNCHANGED favorites

\* the router follows the URL to (p, d): the view of another route is
\* mounted afresh; within the same route the view stays, and the Effect of
\* the stage cards view runs again when the stage parameter has changed
Goto(p, d) ==
    /\ path' = p
    /\ dir' = d
    /\ view' = App(p)
    /\ IF MatchedRoute(p) # MatchedRoute(path)
       THEN SetSignals(Mounted(App(p), p))
       ELSE IF App(p) = "VocabularyCards" /\ ParamStage(p) # ParamStage(path)
       THEN SetSignals(VocabularyCards_Effect(p, signals))
       ELSE SetSignals(signals)
    /\ UNCHANGED favorites

\* the URL changes within the session (a link, history navigation)
Navigate(p, d) ==
    /\ <<p, d>> # <<path, dir>>
    /\ Goto(p, d)
    /\ last' = "navigate"
    /\ UNCHANGED apart
    /\ toggled_from' = <<>>

(* ------------------------- stage index view --------------------------- *)

toggle_direction ==
    /\ view = "Vocabulary"
    /\ Goto(Vocabulary_toggle_direction(dir).path, Vocabulary_toggle_direction(dir).dir)
    /\ last' = "toggle_direction"
    /\ UNCHANGED apart
    /\ toggled_from' = IF Len(toggled_from) = 2
                       THEN <<toggled_from[2], dir>>
                       ELSE Append(toggled_from, dir)

(* ------------------------- stage cards view --------------------------- *)

\* the card, its buttons and the navigation exist when current_card is Ok
VocabularyCards_shown ==
    /\ view = "VocabularyCards"
    /\ VocabularyCards_current_card(path, dir, card_index).ok

VocabularyCards_go_next ==
    /\ VocabularyCards_shown
    /\ IF VocabularyCards_can_next(card_index, card_count)
       THEN /\ card_index' = card_index + 1
            /\ show_example' = FALSE
            /\ show_translation' = FALSE
       ELSE UNCHANGED <<card_index, show_example, show_translation>>
    /\ last' = "go_next"
    /\ UNCHANGED apart
    /\ toggled_from' = <<>>
    /\ UNCHANGED <<path, dir, view, favorites, card_count>>

VocabularyCards_go_prev ==
    /\ VocabularyCards_shown
    /\ IF VocabularyCards_can_prev(card_index)
       THEN /\ card_index' = card_index - 1
            /\ show_example' = FALSE
            /\ show_translation' = FALSE
       ELSE UNCHANGED <<card_index, show_example, show_translation>>
    /\ last' = "go_prev"
    /\ UNCHANGED apart
    /\ toggled_from' = <<>>
    /\ UNCHANGED <<path, dir, view, favorites, card_count>>

VocabularyCards_show_example ==
    /\ VocabularyCards_shown
    /\ ~show_example
    /\ show_example' = TRUE
    /\ last' = "show_example"
    /\ UNCHANGED apart
    /\ toggled_from' = <<>>
    /\ UNCHANGED <<path, dir, view, favorites, card_index, show_translation, card_count>>

VocabularyCards_show_translation ==
    /\ VocabularyCards_shown
    /\ ~show_translation
    /\ show_translation' = TRUE
    /\ last' = "show_translation"
    /\ UNCHANGED apart
    /\ toggled_from' = <<>>
    /\ UNCHANGED <<path, dir, view, favorites, card_index, show_example, card_count>>

\* toggle_favorite hiding the example and the translation, as the favorites
\* view's handler does
VocabularyCards_toggle_favorite_hiding ==
    /\ VocabularyCards_shown
    /\ LET current_stage == VocabularyCards_stage(path)
           source == VocabularyCards_current_card(path, dir, card_index).val[1]
       IN  /\ \/ is_favorite(favorites, current_stage, source.id)
              \/ count(favorites) < MaxFavorites
           /\ favorites' = toggle(favorites, current_stage, source.id)
    /\ show_example' = FALSE
    /\ show_translation' = FALSE
    /\ last' = "toggle_favorite"
    /\ UNCHANGED apart
    /\ toggled_from' = <<>>
    /\ UNCHANGED <<path, dir, view, card_index, card_count>>

VocabularyCards_toggle_favorite ==
    /\ VocabularyCards_shown
    /\ LET current_stage == VocabularyCards_stage(path)
           source == VocabularyCards_current_card(path, dir, card_index).val[1]
       IN  /\ \/ is_favorite(favorites, current_stage, source.id)
              \/ count(favorites) < MaxFavorites
           /\ favorites' = toggle(favorites, current_stage, source.id)
    /\ last' = "toggle_favorite"
    /\ UNCHANGED apart
    /\ toggled_from' = <<>>
    /\ UNCHANGED <<path, dir, view, card_index, show_example, show_translation, card_count>>

(* --------------------------- favorites view --------------------------- *)

\* the card, its buttons and the navigation exist when the working list is
\* not empty and current_card is Ok
Favorites_shown(cards) ==
    /\ view = "Favorites"
    /\ Favorites_pane(cards, card_index, dir) = "card"

\* go_next writing the working list back as the registry
Favorites_go_next_pruning ==
    /\ \E all \in get_all(favorites) :
          LET cards == Favorites_favorite_cards(all)
          IN  /\ Favorites_shown(cards)
              /\ favorites' = {cards[i] : i \in 1..Len(cards)}
              /\ IF Favorites_can_next(card_index, cards)
                 THEN /\ card_index' = card_index + 1
                      /\ show_example' = FALSE
                      /\ show_translation' = FALSE
                 ELSE UNCHANGED <<card_index, show_example, show_translation>>
    /\ last' = "fav_go_next"
    /\ UNCHANGED apart
    /\ toggled_from' = <<>>
    /\ UNCHANGED <<path, dir, view, card_count>>

Favorites_go_next ==
    /\ \E all \in get_all(favorites) :
          LET cards == Favorites_favorite_cards(all)
          IN  /\ Favorites_shown(cards)
              /\ IF Favorites_can_next(card_index, cards)
                 THEN /\ card_index' = card_index + 1
                      /\ show_example' = FALSE
                      /\ show_translation' = FALSE
                 ELSE UNCHANGED <<card_index, show_example, show_translation>>
    /\ last' = "fav_go_next"
    /\ UNCHANGED apart
    /\ toggled_from' = <<>>
    /\ UNCHANGED <<path, dir, view, favorites, card_count>>

Favorites_go_prev ==
    /\ \E all \in get_all(favorites) : Favorites_shown(Favorites_favorite_cards(all))
    /\ IF card_index > 0
       THEN /\ card_index' = card_index - 1
            /\ show_example' = FALSE
            /\ show_translation' = FALSE
       ELSE UNCHANGED <<card_index, show_example, show_translation>>
    /\ last' = "fav_go_prev"
    /\ UNCHANGED apart
    /\ toggled_from' = <<>>
    /\ UNCHANGED <<path, dir, view, favorites, card_count>>

Favorites_show_example ==
    /\ \E all \in get_all(favorites) : Favorites_shown(Favorites_favorite_cards(all))
    /\ ~show_example
    /\ show_example' = TRUE
    /\ last' = "fav_show_example"
    /\ UNCHANGED apart
    /\ toggled_from' = <<>>
    /\ UNCHANGED <<path, dir, view, favorites, card_index, show_translation, card_count>>

Favorites_show_translation ==
    /\ \E all \in get_all(favorites) : Favorites_shown(Favorites_favorite_cards(all))
    /\ ~show_translation
    /\ show_translation' = TRUE
    /\ last' = "fav_show_translation"
    /\ UNCHANGED apart
    /\ toggled_from' = <<>>
    /\ UNCHANGED <<path, dir, view, favorites, card_index, show_example, card_count>>

\* toggle_favorite handing the stage-relative index of the card to the
\* registry instead of its id
Favorites_toggle_favorite_by_index ==
    /\ \E all \in get_all(favorites) : Favorites_shown(Favorites_favorite_cards(all))
    /\ \E all1 \in get_all(favorites) :
          LET cards == Favorites_favorite_cards(all1)
          IN  IF card_index < Len(cards)
              THEN LET stage == cards[card_index + 1][1]
                       card_id == cards[card_index + 1][2] - ((stage - 1) * BlockSize + 1)
                   IN  /\ favorites' = toggle(favorites, stage, card_id)
                       /\ \E all2 \in get_all(favorites') :
                             card_index' = Favorites_index_after_toggle(
                                 card_index, Len(Favorites_favorite_cards(all2)))
                       /\ show_example' = FALSE
                       /\ show_translation' = FALSE
              ELSE UNCHANGED <<favorites, card_index, show_example, show_translation>>
    /\ last' = "fav_toggle_favorite"
    /\ UNCHANGED apart
    /\ toggled_from' = <<>>
    /\ UNCHANGED <<path, dir, view, card_count>>

\* cards is the working list the view rendered; the handler builds it again
\* before the toggle (from the snapshot all1) and after it (from all2)
Favorites_toggle_favorite ==
    /\ \E all \in get_all(favorites) : Favorites_shown(Favorites_favorite_cards(all))
    /\ \E all1 \in get_all(favorites) :
          LET cards == Favorites_favorite_cards(all1)
          IN  IF card_index < Len(cards)
              THEN LET stage == cards[card_index + 1][1]
                       card_id == cards[card_index + 1][2]
                   IN  /\ favorites' = toggle(favorites, stage, card_id)
                       /\ \E all2 \in get_all(favorites') :
                             card_index' = Favorites_index_after_toggle(
                                 card_index, Len(Favorites_favorite_cards(all2)))
                       /\ show_example' = FALSE
                       /\ show_translation' = FALSE
              ELSE UNCHANGED <<favorites, card_index, show_example, show_translation>>
    /\ last' = "fav_toggle_favorite"
    /\ UNCHANGED apart
    /\ toggled_from' = <<>>
    /\ UNCHANGED <<path, dir, view, card_count>>

Next ==
    \/ \E p \in Paths, d \in DirQueries : Navigate(p, d)
    \/ toggle_direction
    \/ VocabularyCards_go_next
    \/ VocabularyCards_go_prev
    \/ VocabularyCards_show_example
    \/ VocabularyCards_show_translation
    \/ VocabularyCards_toggle_favorite
    \/ Favorites_go_next
    \/ Favorites_go_prev
    \/ Favorites_show_example
    \/ Favorites_show_translation
    \/ Favorites_toggle_favorite

Spec == Init /\ [][Next]_vars

(* ---------------------------------------------------------------------- *)
(* Properties                                                              *)
(* ---------------------------------------------------------------------- *)

\* the stage cards view is mounted on a stage that has cards
StageHasCards ==
    /\ view = "VocabularyCards"
    /\ get_stage_card_count(VocabularyCards_stage(path)).ok
    /\ get_stage_card_count(VocabularyCards_stage(path)).val > 0

\* C1: in the stage cards view of a stage with count > 0 cards the cursor
\* satisfies 0 <= index < count, count being the number of cards of the
\* stage, after any sequence of operations; next at index = count - 1 and
\* prev at index = 0 leave the index unchanged.
C1_CursorBounds ==
    /\ [](StageHasCards =>
            /\ card_count = get_stage_card_count(VocabularyCards_stage(path)).val
            /\ 0 <= card_index
            /\ card_index < card_count)
    /\ [][(last' = "go_next" /\ card_index = card_count - 1)
            => card_index' = card_index]_vars
    /\ [][(last' = "go_prev" /\ card_index = 0) => card_index' = card_index]_vars
    /\ [][(last' = "go_next" /\ card_index < card_count - 1)
            => card_index' = card_index + 1]_vars
    /\ [][(last' = "go_prev" /\ card_index > 0)
            => card_index' = card_index - 1]_vars

\* next has acted and brought the cursor to the last card of the stage
C1_Witness ==
    /\ StageHasCards
    /\ last = "go_next"
    /\ card_index > 0
    /\ card_index = card_count - 1

\* C2: in the stage cards view, after any transition that changes the stage
\* or the index, whatever the new stage is, both reveal flags are false.
C2_RevealFlagsReset ==
    [][(/\ view = "VocabularyCards"
        /\ view' = "VocabularyCards"
        /\ \/ VocabularyCards_stage(path') # VocabularyCards_stage(path)
           \/ card_index' # card_index)
       => (~show_example' /\ ~show_translation')]_vars

\* pairs (stage, id) the registry laws are checked on: members and
\* non-members, ids inside and outside the block of their stage
Keys == {1, 2, 4, 999} \X {1, 2, 21, 61}

\* C3: toggle(S, id) inserts the pair when absent and removes it when
\* present, leaves the membership of every other pair unchanged, and applied
\* twice returns the registry to its prior membership set.
C3_ToggleLaws ==
    \A k \in Keys \cup favorites :
        LET once == toggle(favorites, k[1], k[2])
            twice == toggle(once, k[1], k[2])
        IN  /\ k \notin favorites => k \in once
            /\ k \in favorites => k \notin once
            /\ \A o \in (Keys \cup favorites) \ {k} : (o \in once) <=> (o \in favorites)
            /\ once \ {k} = favorites \ {k}
            /\ twice = favorites

\* a toggle of the stage cards view has removed the last member again
C3_Witness ==
    /\ last = "toggle_favorite"
    /\ view = "VocabularyCards"
    /\ favorites = {}

\* the block-of-20 rule for the entry (S, id) of a known stage
BlockRule(entry) ==
    /\ entry[1] \in 1..LastStage
    /\ (entry[1] - 1) * BlockSize + 1 <= entry[2]
    /\ entry[2] <= entry[1] * BlockSize

\* the members of a sequence
Range(s) == {s[i] : i \in 1..Len(s)}

\* C4: the working list of the favorites view contains every registry entry
\* of a known stage (1..21) that satisfies the block-of-20 rule, and no
\* entry that violates it.
C4_WorkingListComplete ==
    view = "Favorites" =>
        \A all \in get_all(favorites) :
            Range(Favorites_favorite_cards(all)) = {e \in favorites : BlockRule(e)}

StrictlyAscending(cards) ==
    \A i \in 1..Len(cards) - 1 : cards[i][2] < cards[i + 1][2]

\* C5: the working list of the favorites view is ordered by card id
\* strictly ascending, and is the same list whatever the order in which the
\* registry hands out its entries.
C5_WorkingListSorted ==
    view = "Favorites" =>
        /\ \A all \in get_all(favorites) :
              StrictlyAscending(Favorites_favorite_cards(all))
        /\ \A all1, all2 \in get_all(favorites) :
              Favorites_favorite_cards(all1) = Favorites_favorite_cards(all2)

\* the favorites view shows two entries that some snapshot of the registry
\* lists in descending order of id
C5_Witness ==
    /\ view = "Favorites"
    /\ \E all \in get_all(favorites) :
          /\ Len(Favorites_favorite_cards(all)) >= 2
          /\ Favorites_filter(all[1])
          /\ Favorites_filter(all[2])
          /\ all[1][2] > all[2][2]

\* the working list of the registry favs (C5: the same for every snapshot)
WorkingList(favs) ==
    Favorites_favorite_cards(CHOOSE all \in get_all(favs) : TRUE)

\* C6: in the favorites view, toggling the star of the card displayed at
\* index j removes that (stage, id) from the registry; afterwards the index
\* is 0 and the empty-state pane is shown if the working list is empty, is
\* new length - 1 if j >= new length, and stays j otherwise; both reveal
\* flags are false.
C6_RemoveFromFavorites ==
    [][last' = "fav_toggle_favorite" =>
        LET cards == WorkingList(favorites)
            shown == cards[card_index + 1]
            new_cards == WorkingList(favorites')
        IN  /\ card_index < Len(cards)
            /\ shown \in favorites
            /\ favorites' = favorites \ {shown}
            /\ new_cards = <<>> =>
                  /\ card_index' = 0
                  /\ Favorites_pane(new_cards, card_index', dir') = "empty"
            /\ (new_cards # <<>> /\ card_index >= Len(new_cards)) =>
                  card_index' = Len(new_cards) - 1
            /\ (new_cards # <<>> /\ card_index < Len(new_cards)) =>
                  card_index' = card_index
            /\ ~show_example'
            /\ ~show_translation']_vars

\* the star of the last card of a longer working list has been toggled: the
\* registry still holds an entry and the index points at the new last one
C6_Witness ==
    /\ view = "Favorites"
    /\ last = "fav_toggle_favorite"
    /\ WorkingList(favorites) # <<>>
    /\ card_index = Len(WorkingList(favorites)) - 1
    /\ ~show_example
    /\ ~show_translation

\* the language of the source card under the dir query value q
SourceLanguage(q) == IF q = Some("en-to-es") THEN "en" ELSE "es"

\* C7: the favorites view takes its direction from the dir query parameter
\* as the stage cards view does: with dir=en-to-es the source card is the
\* English one and the target the Spanish one; with dir=es-to-en, absent or
\* malformed, the source is Spanish and the target English.
C7_FavoritesDirection ==
    (view = "Favorites" /\ Favorites_pane(WorkingList(favorites), card_index, dir) = "card")
    => LET card == Favorites_current_card(WorkingList(favorites), card_index, dir).val
       IN  /\ card[2].word[1] = SourceLanguage(dir)
           /\ card[3].word[1] # SourceLanguage(dir)

\* C8: on the stage index view and on the stage cards view the direction is
\* a function of the dir query value only: en-to-es gives English to
\* Spanish, every other value and an absent dir give Spanish to English.
C8_DirectionFromQuery ==
    /\ view = "Vocabulary" =>
          Vocabulary_direction(dir) =
              IF dir = Some("en-to-es") THEN "en-to-es" ELSE "es-to-en"
    /\ view = "VocabularyCards" =>
          /\ VocabularyCards_direction(dir) =
                IF dir = Some("en-to-es") THEN EnglishToSpanish ELSE SpanishToEnglish
          /\ VocabularyCards_shown =>
                LET card == VocabularyCards_current_card(path, dir, card_index).val
                IN  /\ card[1].word[1] = SourceLanguage(dir)
                    /\ card[2].word[1] # SourceLanguage(dir)

\* a card of the stage cards view is shown under a dir value that is
\* neither of the two exact ones
C8_Witness ==
    /\ VocabularyCards_shown
    /\ last = "navigate"
    /\ dir \notin {None, Some("es-to-en"), Some("en-to-es")}
    /\ VocabularyCards_current_card(path, dir, card_index).val[1].word[1] = "es"

\* the dir query value after toggling the direction twice from q
ToggledTwice(q) ==
    Vocabulary_toggle_direction(Vocabulary_toggle_direction(q).dir).dir

\* C9 as stated: on the stage index view, for every initial query
\* (es-to-en, en-to-es, absent, any other value), toggling the direction
\* twice yields a URL whose dir query value is the original one.
C9_ToggleTwiceOriginal ==
    /\ view = "Vocabulary" => ToggledTwice(dir) = dir
    /\ Len(toggled_from) = 2 => dir = toggled_from[1]

\* C9 as amended: on the stage index view each toggle flips the direction
\* and stays on /vocabulary; toggling twice yields the dir value the view
\* was treating the original query as: the original value when it was
\* es-to-en or en-to-es, es-to-en when it was absent or any other value.
C9_ToggleTwiceEffective ==
    view = "Vocabulary" =>
        /\ Vocabulary_toggle_direction(dir).path = path
        /\ Vocabulary_direction(Vocabulary_toggle_direction(dir).dir)
              # Vocabulary_direction(dir)
        /\ ToggledTwice(dir) = Some(Vocabulary_direction(dir))
        /\ dir \in {Some("es-to-en"), Some("en-to-es")} => ToggledTwice(dir) = dir
        /\ dir \notin {Some("es-to-en"), Some("en-to-es")} =>
              ToggledTwice(dir) = Some("es-to-en")
        /\ Len(toggled_from) >= 1 =>
              Vocabulary_direction(dir) # Vocabulary_direction(toggled_from[Len(toggled_from)])
        /\ Len(toggled_from) = 2 =>
              /\ dir = Some(Vocabulary_direction(toggled_from[1]))
              /\ toggled_from[1] \in {Some("es-to-en"), Some("en-to-es")} =>
                    dir = toggled_from[1]

\* the direction has been toggled twice from a URL without dir
C9_Witness ==
    /\ view = "Vocabulary"
    /\ last = "toggle_direction"
    /\ Len(toggled_from) = 2
    /\ toggled_from[1] = None
    /\ dir = Some("es-to-en")

\* the view the route table of section 4.6 gives the path p
ViewOfPath(p) ==
    IF p = <<>> THEN "Home"
    ELSE IF p = <<SegVocabulary>> THEN "Vocabulary"
    ELSE IF p = <<SegVocabulary, SegFavorites>> THEN "Favorites"
    ELSE IF Len(p) = 2 /\ p[1] = SegVocabulary /\ p[2] # <<>> THEN "VocabularyCards"
    ELSE IF p = <<SegGrammar>> THEN "Grammar"
    ELSE "Page not found"

\* C10: the router maps each path to exactly one view: / to Home,
\* /vocabulary to the stage index, /vocabulary/favorites to Favorites (never
\* to the stage cards view), /vocabulary/<segment> for any other single
\* segment to the stage cards view, /grammar to the Grammar stub, and every
\* other path to "Page not found".
C10_Routing ==
    /\ view = ViewOfPath(path)
    /\ \A p \in Paths : App(p) = ViewOfPath(p)
    /\ path = <<SegVocabulary, SegFavorites>> => ParamStage(path) = None

\* the router has followed the URL to /vocabulary/favorites
C10_Witness ==
    /\ last = "navigate"
    /\ path = <<SegVocabulary, SegFavorites>>
    /\ view = "Favorites"

\* segments that are no non-negative integer for str::parse::<u32>
UnparsedSegments ==
    {<<"a", "b", "c">>, <<"-", "1">>, <<"1", "a">>, <<"1", ".", "5">>, <<"+">>,
     <<" ", "1">>, <<"+", "-", "1">>}

\* segments that are one, with their values
ParsedSegments ==
    {<<<<"1">>, 1>>, <<<<"2">>, 2>>, <<<<"0">>, 0>>, <<<<"2", "1">>, 21>>,
     <<<<"9", "9", "9">>, 999>>, <<<<"0", "0", "7">>, 7>>, <<<<"+", "4">>, 4>>}

\* C11: in the stage cards view the stage is the :stage segment parsed as a
\* non-negative integer; for every segment that does not parse the view
\* behaves as stage 1 and, on arrival, shows the first card of stage 1, not
\* the error pane.
C11_StageParse ==
    /\ [](/\ \A t \in ParsedSegments :
                VocabularyCards_stage(<<SegVocabulary, t[1]>>) = t[2]
          /\ \A s \in UnparsedSegments, q \in DirQueries :
                /\ ~parse_u32(s).ok
                /\ App(<<SegVocabulary, s>>) = "VocabularyCards"
                /\ VocabularyCards_stage(<<SegVocabulary, s>>) = 1
                /\ VocabularyCards_current_card(<<SegVocabulary, s>>, q, 0).ok
                /\ VocabularyCards_current_card(<<SegVocabulary, s>>, q, 0).val[1].id = 1
          /\ (view = "VocabularyCards" /\ ~parse_u32(path[2]).ok) =>
                /\ VocabularyCards_shown
                /\ card_count = get_stage_card_count(1).val
                /\ VocabularyCards_current_card(path, dir, card_index)
                      = get_card_pair(1, card_index, VocabularyCards_direction(dir)))
    /\ [][(path' # path /\ view' = "VocabularyCards" /\ ~parse_u32(path'[2]).ok) =>
            /\ card_index' = 0
            /\ VocabularyCards_current_card(path', dir', card_index').ok
            /\ VocabularyCards_current_card(path', dir', card_index').val[1].id = 1]_vars

\* the URL has changed to a stage segment that is no number, with cards
\* starred before, and the first card of stage 1 is shown
C11_Witness ==
    /\ view = "VocabularyCards"
    /\ last = "navigate"
    /\ ~parse_u32(path[2]).ok
    /\ favorites # {}
    /\ VocabularyCards_shown
    /\ card_index = 0
    /\ VocabularyCards_current_card(path, dir, card_index).val[1].id = 1

\* stages outside 1..21, with a segment that spells each
UnknownStages ==
    {<<<<"0">>, 0>>, <<<<"2", "2">>, 22>>, <<<<"9", "9", "9">>, 999>>}

\* the error of load_vocabulary_stage for a stage it does not embed
IsNotFound(r, stage) == ~r.ok /\ r.err[1] = "Stage" /\ r.err[2] = stage

\* C12: for every stage S outside 1..21 load_vocabulary_stage,
\* get_stage_card_count and get_card_pair return the not-found error, and
\* the stage cards view at /vocabulary/S renders the error pane with a back
\* link to /vocabulary instead of a card: no next, prev, reveal or favorite
\* action is available there and the registry is unchanged.
C12_UnknownStage ==
    /\ [](/\ \A S \in 1..LastStage :
                /\ load_vocabulary_stage(S, "es").ok
                /\ load_vocabulary_stage(S, "en").ok
                /\ get_stage_card_count(S).ok
          /\ \A t \in UnknownStages :
                /\ IsNotFound(load_vocabulary_stage(t[2], "es"), t[2])
                /\ IsNotFound(load_vocabulary_stage(t[2], "en"), t[2])
                /\ IsNotFound(get_stage_card_count(t[2]), t[2])
                /\ \A i \in 0..CardsPerStage, d \in LearningDirection :
                      IsNotFound(get_card_pair(t[2], i, d), t[2])
                /\ \A i \in 0..CardsPerStage, q \in DirQueries :
                      VocabularyCards_pane(<<SegVocabulary, t[1]>>, q, i) = "error"
          /\ (view = "VocabularyCards"
              /\ VocabularyCards_stage(path) \notin 1..LastStage) =>
                /\ VocabularyCards_pane(path, dir, card_index) = "error"
                /\ ~VocabularyCards_shown
                /\ App(VocabularyCards_error_back_link.path) = "Vocabulary")
    /\ [][(view = "VocabularyCards"
           /\ VocabularyCards_stage(path) \notin 1..LastStage) =>
            (last' = "navigate" /\ favorites' = favorites)]_vars

\* the URL has changed to /vocabulary/999 with a card starred before: the
\* error pane is shown
C12_Witness ==
    /\ view = "VocabularyCards"
    /\ last = "navigate"
    /\ VocabularyCards_stage(path) = 999
    /\ favorites # {}
    /\ VocabularyCards_pane(path, dir, card_index) = "error"

\* get_card_pair(stage, i, .) returns the same two cards in both directions,
\* in opposite order
PairSwapped(stage, i) ==
    LET ab == get_card_pair(stage, i, SpanishToEnglish)
        ba == get_card_pair(stage, i, EnglishToSpanish)
    IN  /\ ab.ok
        /\ ba.ok
        /\ ab.val[1] = ba.val[2]
        /\ ab.val[2] = ba.val[1]
        /\ ab.val[1] # ab.val[2]
        /\ ab.val[1] = load_vocabulary_stage(stage, "es").val[i + 1]
        /\ ab.val[2] = load_vocabulary_stage(stage, "en").val[i + 1]

\* C13: for every valid stage S and index i, if get_card_pair(S, i, A->B) is
\* (a, b) then get_card_pair(S, i, B->A) is (b, a): the direction swaps
\* which card is source and which is target, never which cards are returned.
C13_PairAlignment ==
    /\ \A S \in 1..LastStage :
          \A i \in 0..get_stage_card_count(S).val - 1 : PairSwapped(S, i)
    /\ VocabularyCards_shown =>
          /\ PairSwapped(VocabularyCards_stage(path), card_index)
          /\ \A q \in DirQueries :
                LET shown == VocabularyCards_current_card(path, dir, card_index).val
                    other == VocabularyCards_current_card(path, q, card_index).val
                IN  IF VocabularyCards_direction(q) = VocabularyCards_direction(dir)
                    THEN other = shown
                    ELSE other = <<shown[2], shown[1]>>

\* a card past the first of its stage is shown English first after the dir
\* query of the URL has changed
C13_Witness ==
    /\ VocabularyCards_shown
    /\ last = "navigate"
    /\ card_index > 0
    /\ dir = Some("en-to-es")
    /\ VocabularyCards_current_card(path, dir, card_index).val[1].word[1] = "en"

\* C14: in the stage cards view the two reveal flags are independent and
\* monotone within a card: Show Example sets only example-shown, Show
\* Translation sets only translation-shown (also when the example is still
\* hidden), and while (stage, index, direction) is unchanged no operation
\* sets either flag back to false.
C14_RevealMonotone ==
    /\ [][last' = "show_example" =>
            (show_example' /\ show_translation' = show_translation)]_vars
    /\ [][last' = "show_translation" =>
            (show_translation' /\ show_example' = show_example)]_vars
    /\ [][(/\ view = "VocabularyCards"
           /\ view' = "VocabularyCards"
           /\ VocabularyCards_stage(path') = VocabularyCards_stage(path)
           /\ card_index' = card_index
           /\ VocabularyCards_direction(dir') = VocabularyCards_direction(dir))
          => /\ show_example => show_example'
             /\ show_translation => show_translation']_vars

\* the registry key of the card the stage cards view displays
DisplayedKey ==
    <<VocabularyCards_stage(path),
      load_vocabulary_stage(VocabularyCards_stage(path), "es").val[card_index + 1].id>>

\* C15: in the stage cards view the star of the displayed card is filled
\* exactly when (S, source.id) is in the registry, immediately after each
\* toggle, and whatever the direction: a card starred under one direction
\* is shown starred at the same (stage, index) under the other.
C15_StarReflectsRegistry ==
    /\ [](VocabularyCards_shown =>
            /\ VocabularyCards_is_favorite(favorites, path, dir, card_index)
                  = (DisplayedKey \in favorites)
            /\ \A q \in DirQueries :
                  /\ VocabularyCards_current_card(path, q, card_index).val[1].id
                        = DisplayedKey[2]
                  /\ VocabularyCards_is_favorite(favorites, path, q, card_index)
                        = VocabularyCards_is_favorite(favorites, path, dir, card_index))
    /\ [][last' = "toggle_favorite" =>
            /\ VocabularyCards_is_favorite(favorites', path', dir', card_index')
                  = ~VocabularyCards_is_favorite(favorites, path, dir, card_index)
            /\ VocabularyCards_is_favorite(favorites', path', dir', card_index')
                  = (DisplayedKey \in favorites')
            /\ favorites' = toggle(favorites, DisplayedKey[1], DisplayedKey[2])]_vars

\* a card of stage 2 is shown starred English first after the dir query of
\* the URL has changed
C15_Witness ==
    /\ VocabularyCards_shown
    /\ last = "navigate"
    /\ VocabularyCards_stage(path) = 2
    /\ dir = Some("en-to-es")
    /\ VocabularyCards_is_favorite(favorites, path, dir, card_index)

CardViews == {"VocabularyCards", "Favorites"}

\* C16: the registry is created empty when the application starts and
\* every navigation between views keeps its contents, while the cursor
\* belongs to the view: each time the stage cards view or the favorites
\* view is entered (at load or from another view) the index is 0 and both
\* reveal flags are false.
C16_RegistryPersistsCursorDoesNot ==
    /\ [](last = "load" =>
            /\ favorites = FavoritesContext_new
            /\ view \in CardViews =>
                  card_index = 0 /\ ~show_example /\ ~show_translation)
    /\ [][last' \in {"navigate", "toggle_direction"} =>
            favorites' = favorites]_vars
    /\ [][(view' \in CardViews /\ view' # view) =>
            (card_index' = 0 /\ ~show_example' /\ ~show_translation')]_vars

\* the favorites view has just been entered with two cards starred in the
\* stage cards view before
C16_Witness ==
    /\ view = "Favorites"
    /\ last = "navigate"
    /\ count(favorites) = 2
    /\ card_index = 0
    /\ ~show_example
    /\ ~show_translation

(* ---------------------------------------------------------------------- *)
(* The registry on its own: FavoritesContext under any sequence of toggle *)
(* and remove calls (the views never call remove)                         *)
(* ---------------------------------------------------------------------- *)

Registry_Init ==
    /\ favorites = FavoritesContext_new
    /\ path = <<>>
    /\ dir = None
    /\ view = App(<<>>)
    /\ card_index = NewSignals.card_index
    /\ show_example = NewSignals.show_example
    /\ show_translation = NewSignals.show_translation
    /\ card_count = NewSignals.card_count
    /\ last = "new"
    /\ toggled_from = <<>>
    /\ documents = None
    /\ result = None
    /\ props = None
    /\ pending = FALSE
    /\ panicked = FALSE

Registry_toggle(stage, card_id) ==
    /\ \/ is_favorite(favorites, stage, card_id)
       \/ count(favorites) < MaxFavorites
    /\ favorites' = toggle(favorites, stage, card_id)
    /\ last' = "toggle"
    /\ UNCHANGED apart
    /\ UNCHANGED <<path, dir, view, card_index, show_example, show_translation,
                   card_count, toggled_from>>

Registry_remove(stage, card_id) ==
    /\ favorites' = remove(favorites, stage, card_id)
    /\ last' = "remove"
    /\ UNCHANGED apart
    /\ UNCHANGED <<path, dir, view, card_index, show_example, show_translation,
                   card_count, toggled_from>>

Registry_Next ==
    \/ \E key \in Keys : Registry_toggle(key[1], key[2])
    \/ \E key \in Keys : Registry_remove(key[1], key[2])

SpecRegistry == Registry_Init /\ [][Registry_Next]_vars

\* C17: after any sequence of toggle and remove calls the registry is a
\* set: every result of get_all lists each member exactly once and nothing
\* else, count is the number of distinct members, is_favorite is true
\* exactly for the pairs get_all lists, and remove of an absent pair leaves
\* the registry as it is (remove of a member takes out just that member).
C17_RegistryIsSet ==
    /\ [](/\ get_all(favorites) # {}
          /\ \A all \in get_all(favorites) :
                /\ Len(all) = count(favorites)
                /\ \A i, j \in 1..Len(all) : all[i] = all[j] => i = j
                /\ count(favorites) = Cardinality(Range(all))
                /\ \A key \in Keys :
                      is_favorite(favorites, key[1], key[2])
                         <=> Cardinality({i \in 1..Len(all) : all[i] = key}) = 1
                /\ Range(all) \subseteq Keys
          /\ \A key \in Keys :
                /\ ~is_favorite(favorites, key[1], key[2]) =>
                      remove(favorites, key[1], key[2]) = favorites
                /\ is_favorite(favorites, key[1], key[2]) =>
                      /\ ~is_favorite(remove(favorites, key[1], key[2]), key[1], key[2])
                      /\ count(remove(favorites, key[1], key[2])) = count(favorites) - 1)
    /\ [][last' = "remove" =>
            /\ favorites' \subseteq favorites
            /\ count(favorites') >= count(favorites) - 1]_vars
    /\ [][last' = "toggle" =>
            \E key \in Keys :
               /\ is_favorite(favorites', key[1], key[2])
                     = ~is_favorite(favorites, key[1], key[2])
               /\ \A other \in Keys \ {key} :
                     is_favorite(favorites', other[1], other[2])
                        = is_favorite(favorites, other[1], other[2])]_vars

\* remove has just been called with an absent pair on a registry with
\* MaxFavorites members
C17_Witness ==
    /\ last = "remove"
    /\ count(favorites) = MaxFavorites

\* C18: when the stage cards view is mounted and whenever the stage in the
\* URL changes, the index is 0 and both reveal flags are false afterwards,
\* and the stored count is get_stage_card_count of the new stage when that
\* stage has one: the index and the count of the stage shown before never
\* stay after the stage has changed.
C18_StageChangeResets ==
    [][(/\ view' = "VocabularyCards"
        /\ \/ view # "VocabularyCards"
           \/ VocabularyCards_stage(path') # VocabularyCards_stage(path))
       => /\ card_index' = 0
          /\ ~show_example'
          /\ ~show_translation'
          /\ LET n == get_stage_card_count(VocabularyCards_stage(path'))
             IN  n.ok => card_count' = n.val]_vars

\* C19: in the favorites view the index is below the length of the working
\* list whenever that list is not empty; next moves the index one up
\* exactly when it is below length - 1 and prev one down exactly when it is
\* above 0, otherwise they leave it; every step that moves the index, and
\* every star toggle, leaves both reveal flags false.
C19_FavoritesCursorBounds ==
    /\ []((view = "Favorites" /\ WorkingList(favorites) # <<>>) =>
            (0 <= card_index /\ card_index < Len(WorkingList(favorites))))
    /\ [][last' = "fav_go_next" =>
            /\ card_index' = IF card_index < Len(WorkingList(favorites)) - 1
                             THEN card_index + 1
                             ELSE card_index
            /\ favorites' = favorites]_vars
    /\ [][last' = "fav_go_prev" =>
            /\ card_index' = IF card_index > 0 THEN card_index - 1 ELSE card_index
            /\ favorites' = favorites]_vars
    /\ [][(/\ last' \in {"fav_go_next", "fav_go_prev", "fav_toggle_favorite"}
           /\ \/ card_index' # card_index
              \/ last' = "fav_toggle_favorite")
          => (~show_example' /\ ~show_translation')]_vars

\* next has moved the index to the last card of the working list with the
\* example revealed before
C19_Witness ==
    /\ view = "Favorites"
    /\ last = "fav_go_next"
    /\ card_index > 0
    /\ card_index = Len(WorkingList(favorites)) - 1
    /\ ~show_example
    /\ ~show_translation

\* the favorites view displays registry entry (S, id) as the pair the stage
\* cards view shows at (S, i) under direction d
DisplaysPair(S, id, i, d) ==
    LET cards == WorkingList(favorites)
        pair == get_card_pair(S, i, d)
    IN  /\ pair.ok
        /\ \E j \in 0..Len(cards) - 1 :
              /\ cards[j + 1] = <<S, id>>
              /\ Favorites_current_card(cards, j, dir)
                    = Ok(<<S, pair.val[1], pair.val[2]>>)

\* C20: a card starred in the stage cards view at (stage S, index i), for
\* any stage 1..21 and any index, is displayed by the favorites view as
\* get_card_pair(S, i, direction): the index id - ((S-1)*20+1) the view
\* derives from the stored id is i again.
C20_IndexRoundTrip ==
    view = "Favorites" =>
        \A S \in 1..LastStage :
            \A i \in 0..StageLen(S) - 1 :
                LET id == load_vocabulary_stage(S, "es").val[i + 1].id
                IN  /\ id - ((S - 1) * BlockSize + 1) = i
                    /\ <<S, id>> \in favorites =>
                          DisplaysPair(S, id, i, VocabularyCards_direction(dir))

(* ---------------------------------------------------------------------- *)
(* The data layer on its own: get_card_pair and get_stage_card_count of a *)
(* valid stage, over any two documents (also of different lengths)        *)
(* ---------------------------------------------------------------------- *)

Data_Init ==
    /\ documents \in {[es |-> Document("es", a), en |-> Document("en", b)] :
                         a \in 0..MaxDocLen, b \in 0..MaxDocLen}
    /\ result = None
    /\ path = <<>>
    /\ dir = None
    /\ view = App(<<>>)
    /\ favorites = FavoritesContext_new
    /\ card_index = NewSignals.card_index
    /\ show_example = NewSignals.show_example
    /\ show_translation = NewSignals.show_translation
    /\ card_count = NewSignals.card_count
    /\ last = "embed"
    /\ toggled_from = <<>>
    /\ props = None
    /\ pending = FALSE
    /\ panicked = FALSE

Data_get_card_pair(index, direction) ==
    /\ result' = [card_index |-> index, direction |-> direction,
                  value |-> get_card_pair_of(documents.es, documents.en,
                                             index, direction)]
    /\ last' = "get_card_pair"
    /\ UNCHANGED <<path, dir, view, favorites, card_index, show_example,
                   show_translation, card_count, toggled_from, documents,
                   props, pending, panicked>>

Data_get_stage_card_count ==
    /\ result' = [value |-> get_stage_card_count_of(documents.es)]
    /\ last' = "get_stage_card_count"
    /\ UNCHANGED <<path, dir, view, favorites, card_index, show_example,
                   show_translation, card_count, toggled_from, documents,
                   props, pending, panicked>>

Data_Next ==
    \/ \E index \in 0..MaxDocLen + 1, direction \in LearningDirection :
          Data_get_card_pair(index, direction)
    \/ Data_get_stage_card_count

SpecData == Data_Init /\ [][Data_Next]_vars

Min(a, b) == IF a <= b THEN a ELSE b

\* the indexes get_card_pair answers with a pair for the documents at hand
PairIndexes ==
    {i \in 0..MaxDocLen + 1 :
        \A d \in LearningDirection :
            get_card_pair_of(documents.es, documents.en, i, d).ok}

\* C21: for a valid stage get_card_pair fails with the out-of-bounds error
\* exactly when the index is at least the length of the shorter document
\* and otherwise returns the cards at that position of both documents,
\* ordered by the direction; get_stage_card_count returns the length of the
\* Spanish document alone, so with a shorter English document the count
\* exceeds the number of indexes get_card_pair answers with a pair.
C21_PairBoundsAndCount ==
    /\ last = "get_card_pair" =>
          LET i == result.card_index
              shorter == Min(Len(documents.es), Len(documents.en))
          IN  /\ (result.value = Err(<<"Card index out of bounds">>)) <=> (i >= shorter)
              /\ ~result.value.ok <=> (i >= shorter)
              /\ i < shorter =>
                    result.value =
                        IF result.direction = SpanishToEnglish
                        THEN Ok(<<documents.es[i + 1], documents.en[i + 1]>>)
                        ELSE Ok(<<documents.en[i + 1], documents.es[i + 1]>>)
    /\ last = "get_stage_card_count" =>
          /\ result.value = Ok(Len(documents.es))
          /\ Cardinality(PairIndexes) = Min(Len(documents.es), Len(documents.en))
          /\ result.value.val >= Cardinality(PairIndexes)
          /\ Len(documents.en) < Len(documents.es) <=>
                result.value.val > Cardinality(PairIndexes)

\* the English document is the shorter one and get_card_pair has refused
\* an index that is below the count of the stage
C21_Witness ==
    /\ last = "get_card_pair"
    /\ Len(documents.en) < Len(documents.es)
    /\ result.card_index >= Len(documents.en)
    /\ result.card_index < get_stage_card_count_of(documents.es).val
    /\ result.value = Err(<<"Card index out of bounds">>)

\* the registry entries the filter of the favorites view drops
Dropped(favs) == {entry \in favs : ~Favorites_filter(entry)}

\* C22: building and browsing the working list of the favorites view does
\* not change the registry: next, prev and the reveal buttons, and entering
\* the view, leave it as it is; an entry the filter drops stays a member
\* (is_favorite true, counted) through every step in the view, and an
\* entry leaves the registry only by a star toggle on the card displayed,
\* which is that entry.
C22_BrowsingKeepsRegistry ==
    /\ [][last' \in {"fav_go_next", "fav_go_prev", "fav_show_example",
                     "fav_show_translation"}
          => (favorites' = favorites /\ count(favorites') = count(favorites))]_vars
    /\ [][view' = "Favorites" =>
            /\ Dropped(favorites) \subseteq favorites'
            /\ \A entry \in Dropped(favorites) :
                  is_favorite(favorites', entry[1], entry[2])
            /\ \A all \in get_all(favorites') :
                  Range(Favorites_favorite_cards(all)) \cap Dropped(favorites) = {}]_vars
    /\ [][\A entry \in favorites \ favorites' :
             \/ /\ last' = "toggle_favorite"
                /\ entry = DisplayedKey
             \/ /\ last' = "fav_toggle_favorite"
                /\ entry = WorkingList(favorites)[card_index + 1]]_vars

\* the favorites view has been browsed with an entry in the registry that
\* its filter drops
C22_Witness ==
    /\ view = "Favorites"
    /\ last = "fav_go_next"
    /\ Dropped(favorites) # {}
    /\ WorkingList(favorites) # <<>>

(* ---------------------------------------------------------------------- *)
(* The application with its in-app links followed                         *)
(* ---------------------------------------------------------------------- *)

\* the stages of the grid whose links the model follows (the grid has a
\* link for every stage 1..LastStage)
FollowedStages == {stage \in 1..LastStage : Vocabulary_stage_link(None, stage).path \in Paths}

\* the router follows the href of an <A>
Follow(link, name) ==
    /\ Goto(link.path, link.dir)
    /\ last' = name
    /\ toggled_from' = <<>>
    /\ UNCHANGED apart

Vocabulary_follow_stage_link(stage) ==
    /\ view = "Vocabulary"
    /\ Follow(Vocabulary_stage_link(dir, stage), "stage_link")

Vocabulary_follow_favorites_link ==
    /\ view = "Vocabulary"
    /\ Follow(Vocabulary_favorites_link(dir), "favorites_link")

VocabularyCards_follow_back_link ==
    /\ view = "VocabularyCards"
    /\ Follow(VocabularyCards_back_link(dir), "back_link")

VocabularyCards_follow_error_back_link ==
    /\ view = "VocabularyCards"
    /\ VocabularyCards_pane(path, dir, card_index) = "error"
    /\ Follow(VocabularyCards_error_back_link, "error_back_link")

Favorites_follow_back_link ==
    /\ view = "Favorites"
    /\ Follow(Favorites_back_link, "fav_back_link")

Favorites_follow_empty_back_link ==
    /\ view = "Favorites"
    /\ \E all \in get_all(favorites) :
          Favorites_pane(Favorites_favorite_cards(all), card_index, dir) = "empty"
    /\ Follow(Favorites_empty_back_link, "fav_empty_back_link")

Links_Next ==
    \/ Next
    \/ \E stage \in FollowedStages : Vocabulary_follow_stage_link(stage)
    \/ Vocabulary_follow_favorites_link
    \/ VocabularyCards_follow_back_link
    \/ VocabularyCards_follow_error_back_link
    \/ Favorites_follow_back_link
    \/ Favorites_follow_empty_back_link

SpecLinks == Init /\ [][Links_Next]_vars

\* the dir query value that names a direction
DirectionName(d) == IF d = EnglishToSpanish THEN "en-to-es" ELSE "es-to-en"

\* C23: on the stage index view the link of every stage 1..21 and the
\* favorites link carry ?dir=<the view's current direction>; the stage
\* link leads to the stage cards view of that stage, and after any number
\* of direction toggles the stage cards view a stage link leads to has the
\* direction the toggle showed: with en-to-es the source word is from the
\* English list.
C23_LinksCarryDirection ==
    /\ [](view = "Vocabulary" =>
            /\ \A stage \in 1..LastStage :
                  LET link == Vocabulary_stage_link(dir, stage)
                  IN  /\ link.dir = Some(Vocabulary_direction(dir))
                      /\ App(link.path) = "VocabularyCards"
                      /\ VocabularyCards_stage(link.path) = stage
                      /\ DirectionName(VocabularyCards_direction(link.dir))
                            = Vocabulary_direction(dir)
                      /\ get_card_pair(stage, 0, VocabularyCards_direction(link.dir)).ok =>
                            get_card_pair(stage, 0, VocabularyCards_direction(link.dir)).val[1].word[1]
                               = SourceLanguage(Some(Vocabulary_direction(dir)))
            /\ Vocabulary_favorites_link(dir).dir = Some(Vocabulary_direction(dir))
            /\ App(Vocabulary_favorites_link(dir).path) = "Favorites")
    /\ [][last' = "stage_link" =>
            /\ view' = "VocabularyCards"
            /\ dir' = Some(Vocabulary_direction(dir))
            /\ DirectionName(VocabularyCards_direction(dir')) = Vocabulary_direction(dir)
            /\ VocabularyCards_pane(path', dir', card_index') = "card"
            /\ VocabularyCards_current_card(path', dir', card_index').val[1].word[1]
                  = SourceLanguage(Some(Vocabulary_direction(dir)))]_vars
    /\ [][last' = "favorites_link" =>
            /\ view' = "Favorites"
            /\ dir' = Some(Vocabulary_direction(dir))]_vars

\* a stage link has been followed with the toggle showing English to
\* Spanish: the card shown has its source word from the English list
C23_Witness ==
    /\ last = "stage_link"
    /\ view = "VocabularyCards"
    /\ dir = Some("en-to-es")
    /\ VocabularyCards_current_card(path, dir, card_index).ok
    /\ VocabularyCards_current_card(path, dir, card_index).val[1].word[1] = "en"

(* ---------------------------------------------------------------------- *)
(* src/components/vocabulary_card.rs: the shared card component under a   *)
(* parent that renders it. The props are plain values: an instance keeps  *)
(* the props it was created with, and a change of a prop reaches the      *)
(* screen only by the parent creating the component again.                *)
(* ---------------------------------------------------------------------- *)

\* largest card_index prop
MaxCardIndex == 2

CardProps ==
    [card_index : 0..MaxCardIndex, is_favorite : BOOLEAN,
     direction : LearningDirection]

\* the component function runs: signal(false) twice, Effect::new schedules
\* the Effect
VocabularyCard(new_props) ==
    /\ props' = new_props
    /\ show_example' = FALSE
    /\ show_translation' = FALSE
    /\ pending' = TRUE

Card_Init ==
    /\ props \in CardProps
    /\ show_example = FALSE
    /\ show_translation = FALSE
    /\ pending = TRUE
    /\ path = <<>>
    /\ dir = None
    /\ view = App(<<>>)
    /\ favorites = FavoritesContext_new
    /\ card_index = NewSignals.card_index
    /\ card_count = NewSignals.card_count
    /\ last = "render"
    /\ toggled_from = <<>>
    /\ documents = None
    /\ result = None
    /\ panicked = FALSE

\* the parent renders the component with other props
Card_render(new_props) ==
    /\ new_props # props
    /\ VocabularyCard(new_props)
    /\ last' = "render"
    /\ UNCHANGED <<path, dir, view, favorites, card_index, card_count,
                   toggled_from, documents, result, panicked>>

\* the Effect runs, once: it reads no signal, so nothing runs it again
Card_Effect ==
    /\ pending
    /\ pending' = FALSE
    /\ show_example' = FALSE
    /\ show_translation' = FALSE
    /\ last' = "effect"
    /\ UNCHANGED <<path, dir, view, favorites, card_index, card_count,
                   toggled_from, documents, result, props, panicked>>

Card_show_example ==
    /\ ~pending
    /\ ~show_example
    /\ show_example' = TRUE
    /\ last' = "show_example"
    /\ UNCHANGED <<path, dir, view, favorites, card_index, card_count,
                   toggled_from, documents, result, props, pending, panicked,
                   show_translation>>

Card_show_translation ==
    /\ ~pending
    /\ ~show_translation
    /\ show_translation' = TRUE
    /\ last' = "show_translation"
    /\ UNCHANGED <<path, dir, view, favorites, card_index, card_count,
                   toggled_from, documents, result, props, pending, panicked,
                   show_example>>

\* the star button calls on_toggle_favorite, the parent's callback
Card_toggle_favorite ==
    /\ ~pending
    /\ last' = "on_toggle_favorite"
    /\ UNCHANGED <<path, dir, view, favorites, card_index, card_count,
                   toggled_from, documents, result, props, pending, panicked,
                   show_example, show_translation>>

Card_Next ==
    \/ \E new_props \in CardProps : Card_render(new_props)
    \/ Card_Effect
    \/ Card_show_example
    \/ Card_show_translation
    \/ Card_toggle_favorite

SpecCard == Card_Init /\ [][Card_Next]_vars

\* C24: in the shared card component both reveal flags are false whenever
\* the index input has changed to another value, and nothing else resets
\* them: while the index input stays the same a flag that is true stays
\* true.
C24_OnlyIndexResets ==
    /\ [][props'.card_index # props.card_index =>
            (~show_example' /\ ~show_translation')]_vars
    /\ [][props'.card_index = props.card_index =>
            /\ show_example => show_example'
            /\ show_translation => show_translation']_vars

(* ---------------------------------------------------------------------- *)
(* The application tick by tick: the view is rendered when it is mounted, *)
(* the Effect created by Effect::new runs on the next tick. usize         *)
(* subtraction below zero panics in a build with overflow checks and      *)
(* wraps in a build without them.                                         *)
(* ---------------------------------------------------------------------- *)

\* rendering view v at (p, q) with the signals sig evaluates
\* card_count.get() - 1 (the disabled test of the Next button, which is
\* part of the card pane) with card_count = 0
RenderUnderflows(v, p, q, sig) ==
    /\ v = "VocabularyCards"
    /\ VocabularyCards_pane(p, q, sig.card_index) = "card"
    /\ sig.card_count = 0

\* whether the program has panicked after that rendering: both builds
RenderOutcomes(v, p, q, sig) ==
    IF RenderUnderflows(v, p, q, sig) THEN {TRUE, FALSE} ELSE {FALSE}

Tick_Init ==
    /\ path \in Paths
    /\ dir \in DirQueries
    /\ view = App(path)
    /\ favorites = FavoritesContext_new
    /\ card_index = NewSignals.card_index
    /\ show_example = NewSignals.show_example
    /\ show_translation = NewSignals.show_translation
    /\ card_count = NewSignals.card_count
    /\ pending = (view = "VocabularyCards")
    /\ panicked \in RenderOutcomes(view, path, dir, NewSignals)
    /\ last = "load"
    /\ toggled_from = <<>>
    /\ documents = None
    /\ result = None
    /\ props = None

\* the router follows the URL to (p, d): the view of another route is
\* created and rendered with its new signals. Within the route of the
\* stage cards view a change of the stage parameter notifies the pane and
\* the Effect; the order in which the two run is the reactive system's:
\* the pane is rendered first and the Effect runs on the next tick, or the
\* Effect runs first
Tick_Goto(p, d) ==
    /\ path' = p
    /\ dir' = d
    /\ view' = App(p)
    /\ IF MatchedRoute(p) # MatchedRoute(path)
       THEN /\ SetSignals(NewSignals)
            /\ pending' = (App(p) = "VocabularyCards")
            /\ panicked' \in RenderOutcomes(App(p), p, d, NewSignals)
       ELSE IF App(p) = "VocabularyCards" /\ ParamStage(p) # ParamStage(path)
       THEN \/ /\ SetSignals(signals)
               /\ pending' = TRUE
               /\ panicked' \in RenderOutcomes(App(p), p, d, signals)
            \/ /\ SetSignals(VocabularyCards_Effect(p, signals))
               /\ pending' = FALSE
               /\ panicked' \in RenderOutcomes(App(p), p, d,
                                                VocabularyCards_Effect(p, signals))
       ELSE /\ SetSignals(signals)
            /\ pending' = FALSE
            /\ panicked' \in RenderOutcomes(App(p), p, d, signals)
    /\ UNCHANGED <<favorites, documents, result, props>>

Tick_Navigate(p, d) ==
    /\ <<p, d>> # <<path, dir>>
    /\ Tick_Goto(p, d)
    /\ last' = "navigate"
    /\ toggled_from' = <<>>

Tick_toggle_direction ==
    /\ view = "Vocabulary"
    /\ Tick_Goto(Vocabulary_toggle_direction(dir).path, Vocabulary_toggle_direction(dir).dir)
    /\ last' = "toggle_direction"
    /\ toggled_from' = IF Len(toggled_from) = 2
                       THEN <<toggled_from[2], dir>>
                       ELSE Append(toggled_from, dir)

\* the Effect of the stage cards view runs and the pane is rendered with
\* the signals it has set
Tick_Effect ==
    /\ pending
    /\ ~panicked
    /\ SetSignals(VocabularyCards_Effect(path, signals))
    /\ pending' = FALSE
    /\ panicked' \in RenderOutcomes(view, path, dir, VocabularyCards_Effect(path, signals))
    /\ last' = "effect"
    /\ toggled_from' = <<>>
    /\ UNCHANGED <<path, dir, view, favorites, documents, result, props>>

\* events reach the program between ticks, and not after a panic
Tick_Event ==
    /\ ~pending
    /\ ~panicked
    /\ \/ \E p \in Paths, d \in DirQueries : Tick_Navigate(p, d)
       \/ Tick_toggle_direction
       \/ VocabularyCards_go_next
       \/ VocabularyCards_go_prev
       \/ VocabularyCards_show_example
       \/ VocabularyCards_show_translation
       \/ VocabularyCards_toggle_favorite
       \/ Favorites_go_next
       \/ Favorites_go_prev
       \/ Favorites_show_example
       \/ Favorites_show_translation
       \/ Favorites_toggle_favorite

Tick_Next ==
    \/ Tick_Event
    \/ Tick_Effect

SpecTicks == Tick_Init /\ [][Tick_Next]_vars

\* C25: no usize subtraction goes below zero in any reachable state: the
\* program never panics on one; whenever the card pane of the stage cards
\* view is rendered (with the Next button, whose disabled test and whose
\* handler evaluate card_count - 1) the stored count is above 0, also on
\* the first rendering after the view is mounted; in the favorites view
\* the card pane is rendered for a working list that is not empty, and
\* every id in the working list is at least the first id of its block.
C25_NoUnderflow ==
    /\ ~panicked
    /\ (/\ view = "VocabularyCards"
        /\ VocabularyCards_pane(path, dir, card_index) = "card") => card_count > 0
    /\ view = "Favorites" =>
          \A all \in get_all(favorites) :
              LET cards == Favorites_favorite_cards(all)
              IN  /\ Favorites_pane(cards, card_index, dir) = "card" => Len(cards) > 0
                  /\ \A i \in 1..Len(cards) :
                        cards[i][2] >= (cards[i][1] - 1) * BlockSize + 1

\* the direction view v works with under the dir query value q
EffectiveDirection(v, q) ==
    IF v = "Vocabulary" THEN Vocabulary_direction(q)
    ELSE IF v = "VocabularyCards" THEN DirectionName(VocabularyCards_direction(q))
    ELSE IF v = "Favorites" THEN DirectionName(Favorites_direction(q))
    ELSE "none"

LinkNames ==
    {"stage_link", "favorites_link", "back_link", "error_back_link",
     "fav_back_link", "fav_empty_back_link"}

\* C26: every in-app link between the stage index, the stage cards view
\* and the favorites view (stage link, favorites link, the back links of
\* the headers, of the empty-state pane and of the error pane) leads to a
\* view whose direction is the direction of the view it was followed from.
C26_LinksPreserveDirection ==
    [][last' \in LinkNames =>
         EffectiveDirection(view', dir') = EffectiveDirection(view, dir)]_vars

\* the stage cards view is mounted on a valid stage whose two documents
\* have the same length
ValidAligned(v, p) ==
    /\ v = "VocabularyCards"
    /\ VocabularyCards_stage(p) \in 1..LastStage
    /\ Len(load_vocabulary_stage(VocabularyCards_stage(p), "es").val)
          = Len(load_vocabulary_stage(VocabularyCards_stage(p), "en").val)

ValidAlignedStage == ValidAligned(view, path)

StageViewOperations ==
    {"go_next", "go_prev", "show_example", "show_translation", "toggle_favorite"}

\* C28: in the stage cards view next, prev, Show Example and Show
\* Translation leave the registry unchanged; the star toggle leaves the
\* index, the count and both reveal flags unchanged; and no operation of
\* the view changes the membership of a registry entry other than
\* (current stage, id of the displayed source card).
C28_StageViewFrame ==
    /\ [][last' \in {"go_next", "go_prev", "show_example", "show_translation"}
          => favorites' = favorites]_vars
    /\ [][last' = "toggle_favorite" =>
            /\ card_index' = card_index
            /\ card_count' = card_count
            /\ show_example' = show_example
            /\ show_translation' = show_translation
            /\ favorites' # favorites]_vars
    /\ [][last' \in StageViewOperations =>
            /\ view = "VocabularyCards"
            /\ <<path', dir', view'>> = <<path, dir, view>>
            /\ \A key \in (Keys \cup favorites \cup favorites') \ {DisplayedKey} :
                  is_favorite(favorites', key[1], key[2])
                     = is_favorite(favorites, key[1], key[2])]_vars

\* the star of the second card of a stage has been toggled with the example
\* and the translation revealed and another entry in the registry
C28_Witness ==
    /\ last = "toggle_favorite"
    /\ card_index > 0
    /\ show_example
    /\ show_translation
    /\ count(favorites) = 2

\* C29: in the favorites view the card displayed is a member of the
\* registry (the filled star is true), the star is there whenever the
\* working list is not empty, and every star toggle is a removal: the
\* registry loses the displayed entry and gains none, and the working list
\* gets shorter by exactly one, so a working list of n entries is empty
\* after exactly n toggles.
C29_FavoritesToggleRemoves ==
    /\ [](view = "Favorites" =>
            LET cards == WorkingList(favorites)
            IN  /\ cards # <<>> => Favorites_pane(cards, card_index, dir) = "card"
                /\ Favorites_pane(cards, card_index, dir) = "card" =>
                      /\ is_favorite(favorites, cards[card_index + 1][1],
                                     cards[card_index + 1][2])
                      /\ Favorites_current_card(cards, card_index, dir).val[2].id
                            = cards[card_index + 1][2]
                /\ Len(cards) <= count(favorites))
    /\ [][last' = "fav_toggle_favorite" =>
            /\ favorites' \subseteq favorites
            /\ count(favorites') = count(favorites) - 1
            /\ Len(WorkingList(favorites')) = Len(WorkingList(favorites)) - 1
            /\ Len(WorkingList(favorites)) = 1 =>
                  Favorites_pane(WorkingList(favorites'), card_index', dir') = "empty"]_vars

\* the last card of the working list has been removed by its star: the
\* empty-state pane is shown
C29_Witness ==
    /\ view = "Favorites"
    /\ last = "fav_toggle_favorite"
    /\ WorkingList(favorites) = <<>>
    /\ card_index = 0
    /\ Favorites_pane(WorkingList(favorites), card_index, dir) = "empty"

====
